---- MODULE Spec2Model ----
(***************************************************************************)
(* Ledger API server (src/server.js): an in-memory balance and an          *)
(* append-only list of transactions, mutated by POST /deposit and          *)
(* POST /withdraw and read by the GET routes.  Node runs every handler to  *)
(* completion on one thread, so each handler is one atomic action.         *)
(*                                                                         *)
(* JavaScript numbers are IEEE-754 binary64 values.  The model keeps the   *)
(* structure of that number type (round-to-nearest-even, overflow to       *)
(* Infinity, NaN) with a mantissa of MantissaBits bits instead of 53 and   *)
(* ExpRange binades above the first one, so that rounding and overflow     *)
(* happen at amounts TLC can enumerate.  A finite value is an integer      *)
(* count of the smallest quantum of the format.                            *)
(***************************************************************************)
EXTENDS Integers, Sequences, FiniteSets, TLC

\* ------------------------------------------------------------------------
\* Bounds of the model
\* ------------------------------------------------------------------------
MaxTx == 3
MantissaBits == 2
ExpRange == 2
MaxClock == 1

\* ------------------------------------------------------------------------
\* Program constants
\* ------------------------------------------------------------------------
DefaultLimit == 50
DefaultOffset == 0

\* ------------------------------------------------------------------------
\* JavaScript numbers
\* ------------------------------------------------------------------------
Fin(n) == [k |-> "fin", v |-> n]
PosInf == [k |-> "inf", v |-> 1]
NegInf == [k |-> "inf", v |-> -1]
NaN == [k |-> "nan", v |-> 0]

IsNaN(x) == x.k = "nan"
IsFinite(x) == x.k = "fin"

RECURSIVE Pow2(_)
Pow2(n) == IF n = 0 THEN 1 ELSE 2 * Pow2(n - 1)

RECURSIVE Pow10(_)
Pow10(n) == IF n = 0 THEN 1 ELSE 10 * Pow10(n - 1)

\* Largest finite value of the number format.
MaxFinite == (Pow2(MantissaBits) - 1) * Pow2(ExpRange)

\* Spacing of representable values around q: 1 below 2^MantissaBits,
\* doubling with every binade above.
RECURSIVE StepFor(_, _)
StepFor(q, step) ==
    IF q < Pow2(MantissaBits) * step THEN step ELSE StepFor(q, 2 * step)

\* The representable value nearest to the non-negative rational n/d, ties to
\* the even mantissa; a result above MaxFinite overflows to Infinity.
RoundMagnitude(n, d) ==
    LET step == StepFor(n \div d, 1)
        unit == d * step
        m == n \div unit
        rem == n - m * unit
        up == \/ 2 * rem > unit
              \/ (2 * rem = unit /\ m % 2 = 1)
        r == (IF up THEN m + 1 ELSE m) * step
    IN  IF r > MaxFinite THEN PosInf ELSE Fin(r)

Negate(x) ==
    IF x.k = "nan" THEN NaN ELSE [k |-> x.k, v |-> 0 - x.v]

\* Rounding of the rational n/d (d > 0) to a number value.
RoundRat(n, d) ==
    IF n >= 0 THEN RoundMagnitude(n, d) ELSE Negate(RoundMagnitude(0 - n, d))

Round(n) == RoundRat(n, 1)

\* x + y of IEEE-754: NaN is absorbing, Infinity + (-Infinity) is NaN,
\* a finite sum is rounded.
FAdd(x, y) ==
    IF IsNaN(x) \/ IsNaN(y) THEN NaN
    ELSE IF x.k = "inf" /\ y.k = "inf" THEN (IF x.v = y.v THEN x ELSE NaN)
    ELSE IF x.k = "inf" THEN x
    ELSE IF y.k = "inf" THEN y
    ELSE Round(x.v + y.v)

\* x - y of IEEE-754.
FSub(x, y) == FAdd(x, Negate(y))

\* x > y of JavaScript: false whenever an operand is NaN.
FGt(x, y) ==
    IF IsNaN(x) \/ IsNaN(y) THEN FALSE
    ELSE IF x.k = "inf" /\ y.k = "inf" THEN x.v > y.v
    ELSE IF x.k = "inf" THEN x.v > 0
    ELSE IF y.k = "inf" THEN y.v < 0
    ELSE x.v > y.v

\* ------------------------------------------------------------------------
\* JavaScript values of a JSON request body or a query string
\* ------------------------------------------------------------------------
\* A string is the sequence of its characters.
Undefined == [t |-> "undefined", n |-> NaN, s |-> <<>>]
Null == [t |-> "null", n |-> NaN, s |-> <<>>]
Bool(b) == [t |-> "boolean", n |-> Fin(IF b THEN 1 ELSE 0), s |-> <<>>]
Num(x) == [t |-> "number", n |-> x, s |-> <<>>]
Str(s) == [t |-> "string", n |-> NaN, s |-> s]

\* JavaScript truthiness: !x is ~Truthy(x).
Truthy(x) ==
    CASE x.t = "undefined" -> FALSE
      [] x.t = "null" -> FALSE
      [] x.t = "boolean" -> x.n.v = 1
      [] x.t = "number" -> ~IsNaN(x.n) /\ x.n # Fin(0)
      [] x.t = "string" -> x.s # <<>>

Digits == {"0", "1", "2", "3", "4", "5", "6", "7", "8", "9"}

DigitValue ==
    "0" :> 0 @@ "1" :> 1 @@ "2" :> 2 @@ "3" :> 3 @@ "4" :> 4 @@
    "5" :> 5 @@ "6" :> 6 @@ "7" :> 7 @@ "8" :> 8 @@ "9" :> 9

RECURSIVE TrimLeft(_)
TrimLeft(s) ==
    IF s # <<>> /\ Head(s) = " " THEN TrimLeft(Tail(s)) ELSE s

RECURSIVE DigitPrefix(_)
DigitPrefix(s) ==
    IF s = <<>> \/ Head(s) \notin Digits THEN <<>>
    ELSE <<Head(s)>> \o DigitPrefix(Tail(s))

RECURSIVE DigitsValue(_)
DigitsValue(ds) ==
    IF ds = <<>> THEN 0
    ELSE 10 * DigitsValue(SubSeq(ds, 1, Len(ds) - 1)) + DigitValue[ds[Len(ds)]]

Drop(s, n) == SubSeq(s, n + 1, Len(s))

StartsWith(s, p) == Len(s) >= Len(p) /\ SubSeq(s, 1, Len(p)) = p

InfinityChars == <<"I", "n", "f", "i", "n", "i", "t", "y">>

\* parseFloat of a string: leading blanks are skipped, then an optional
\* sign, then "Infinity" or the longest decimal literal (digits with an
\* optional fraction); whatever follows is ignored; no literal gives NaN.
\* The strings of the model hold no exponent marker.
ParseFloatChars(s) ==
    LET t == TrimLeft(s)
        signed == t # <<>> /\ Head(t) \in {"-", "+"}
        neg == t # <<>> /\ Head(t) = "-"
        u == IF signed THEN Tail(t) ELSE t
        ip == DigitPrefix(u)
        afterInt == Drop(u, Len(ip))
        hasDot == afterInt # <<>> /\ Head(afterInt) = "."
        fp == IF hasDot THEN DigitPrefix(Tail(afterInt)) ELSE <<>>
        mag == IF StartsWith(u, InfinityChars) THEN PosInf
               ELSE IF ip = <<>> /\ fp = <<>> THEN NaN
               ELSE RoundMagnitude(DigitsValue(ip \o fp), Pow10(Len(fp)))
    IN  IF neg THEN Negate(mag) ELSE mag

\* parseInt of a string, radix 10: leading blanks, an optional sign, then the
\* longest run of digits; no digit gives NaN.  The history holds far fewer
\* than 2^53 entries and Array.prototype.slice clamps every index to the
\* length, so index values are kept exact.
ParseIntChars(s) ==
    LET t == TrimLeft(s)
        signed == t # <<>> /\ Head(t) \in {"-", "+"}
        neg == t # <<>> /\ Head(t) = "-"
        u == IF signed THEN Tail(t) ELSE t
        ip == DigitPrefix(u)
    IN  IF ip = <<>> THEN NaN
        ELSE IF neg THEN Fin(0 - DigitsValue(ip)) ELSE Fin(DigitsValue(ip))

\* parseInt(x): a number (a default of the handler) is an integer already.
ParseInt(x) ==
    CASE x.t = "number" -> x.n
      [] x.t = "string" -> ParseIntChars(x.s)
      [] OTHER -> NaN

\* Index arithmetic offset + limit.
IndexAdd(x, y) ==
    IF x.k = "fin" /\ y.k = "fin" THEN Fin(x.v + y.v) ELSE NaN

Min(a, b) == IF a < b THEN a ELSE b
Max(a, b) == IF a > b THEN a ELSE b

\* A relative index of Array.prototype.slice: NaN is 0, a negative index
\* counts from the end, and the result is clamped to 0 .. len.
SliceIndex(x, len) ==
    IF x.k # "fin" THEN 0
    ELSE IF x.v < 0 THEN Max(len + x.v, 0)
    ELSE Min(x.v, len)

\* A slice that never starts past the last entry.
SliceLastPage(list, start, end) ==
    SubSeq(list, Min(SliceIndex(start, Len(list)), Max(Len(list) - 1, 0)) + 1,
           SliceIndex(end, Len(list)))

\* A slice that keeps one entry past the end index.
SliceInclusive(list, start, end) ==
    SubSeq(list, SliceIndex(start, Len(list)) + 1,
           Min(SliceIndex(end, Len(list)) + 1, Len(list)))

\* list.slice(start, end)
Slice(list, start, end) ==
    LET k == SliceIndex(start, Len(list))
        final == SliceIndex(end, Len(list))
    IN  SubSeq(list, k + 1, final)

\* An insertion at the front instead of the end.
PushFront(list, transaction) == <<transaction>> \o list

\* list.push(transaction)
Push(list, transaction) == Append(list, transaction)

DigitChar == <<"0", "1", "2", "3", "4", "5", "6", "7", "8", "9">>

\* n.toString() for an integer n >= 0 (the client's limit.toString()).
RECURSIVE DecimalString(_)
DecimalString(n) ==
    IF n < 10 THEN <<DigitChar[n + 1]>>
    ELSE DecimalString(n \div 10) \o <<DigitChar[(n % 10) + 1]>>

\* parseFloat(x): x is converted to a string first.  A number prints as a
\* literal that parses back to itself; "undefined", "null", "true" and
\* "false" hold no numeric literal.
ParseFloat(x) ==
    CASE x.t = "number" -> x.n
      [] x.t = "string" -> ParseFloatChars(x.s)
      [] OTHER -> NaN

\* ------------------------------------------------------------------------
\* Inputs
\* ------------------------------------------------------------------------
\* Values of the "amount" field of a request body: missing, JSON numbers
\* and strings.
AmountInputs ==
    { Undefined, Num(Fin(0)), Num(Fin(-1)), Num(Fin(1)), Num(Fin(6)),
      Str(<<>>), Str(<<"a", "b", "c">>), Str(<<"0">>),
      Str(<<"1", "a", "b", "c">>), Str(<<"0", ".", "4">>), Str(InfinityChars) }

\* Values of the "description" field of a JSON body: missing, null, a text
\* (possibly empty) or a number.
DescriptionInputs ==
    { Undefined, Null, Str(<<>>), Str(<<"S", "a", "l", "a", "r", "y">>),
      Num(Fin(1)) }

\* Page sizes and offsets a caller asks for.
QueryNumbers == {0, 1, 2, 4, 50}

\* Values of the "limit" and "offset" query parameters: missing, the decimal
\* text of a number, or some other text.
QueryInputs ==
    {Undefined} \cup {Str(DecimalString(n)) : n \in QueryNumbers}
        \cup {Str(<<"-", "1">>), Str(<<"a", "b", "c">>), Str(<<>>)}

\* Outcomes of Math.random().toString(36).substr(2, 9).
RandomSuffixes == { "5ni1fk1dl", "5so21klfo" }

\* ------------------------------------------------------------------------
\* State
\* ------------------------------------------------------------------------
VARIABLES
    transactions,   \* let transactions = []
    balance,        \* let balance = 0
    now,            \* the system clock read by Date.now() and new Date()
    req,            \* the request handled last
    res,            \* the response sent to it
    inflight,       \* requests of LedgerClient sent and not yet handled
    calls           \* the LedgerClient method each client is running

vars == <<transactions, balance, now, req, res, inflight, calls>>

\* The callers of the API, each with a LedgerClient of its own.
Clients == {"A", "B"}

NoResponse == [status |-> 0, success |-> TRUE]

\* A client that runs no method of LedgerClient.
IdleCall ==
    [ op |-> "idle", pc |-> "idle", amount |-> Undefined,
      transactions |-> NoResponse, balance |-> NoResponse,
      withdrawal |-> NoResponse, result |-> NoResponse ]

\* ------------------------------------------------------------------------
\* Helpers of the server
\* ------------------------------------------------------------------------
\* Date.now().toString() + <random suffix>: the digits of the clock followed
\* by the suffix, kept as the pair of the two parts.
generateTransactionId(rnd) == [ms |-> now, rnd |-> rnd]

validateAmount(amount) ==
    LET numAmount == ParseFloat(amount)
    IN  ~IsNaN(numAmount) /\ FGt(numAmount, Fin(0))

\* The guard of both POST handlers: !amount || !validateAmount(amount).
InvalidAmount(amount) == ~Truthy(amount) \/ ~validateAmount(amount)

\* A funds check that also refuses the whole balance.
InsufficientFundsOrEqual(numAmount, bal) ==
    FGt(numAmount, bal) \/ numAmount = bal

\* A funds check that lets one unit too many through.
InsufficientFundsLate(numAmount, bal) == FGt(numAmount, FAdd(bal, Fin(1)))

\* The funds check of POST /withdraw: numAmount > balance.
InsufficientFunds(numAmount, bal) == FGt(numAmount, bal)

\* const { amount, description = dflt } = req.body: the default replaces
\* only a missing (undefined) field.
DescriptionOr(description, dflt) ==
    IF description.t = "undefined" THEN Str(dflt) ELSE description

DepositDefault == <<"D", "e", "p", "o", "s", "i", "t">>
WithdrawalDefault == <<"W", "i", "t", "h", "d", "r", "a", "w", "a", "l">>

InvalidAmountResponse ==
    [ status |-> 400, success |-> FALSE,
      error |-> "Valid amount is required (must be a positive number)" ]

InsufficientFundsResponse ==
    [ status |-> 400, success |-> FALSE,
      error |-> "Insufficient funds" ]

CreatedResponse(transaction, newBalance) ==
    [ status |-> 201, success |-> TRUE,
      transaction |-> transaction, newBalance |-> newBalance ]

\* A balance update that is skipped.
NewBalanceSkipped(bal, numAmount) == bal

NewBalanceAfterDeposit(bal, numAmount) == FAdd(bal, numAmount)

NewBalanceAfterWithdrawal(bal, numAmount) == FSub(bal, numAmount)

\* ------------------------------------------------------------------------
\* Initial state
\* ------------------------------------------------------------------------
Init ==
    /\ transactions = <<>>
    /\ balance = Fin(0)
    /\ now = 0
    /\ req = [route |-> "none"]
    /\ res = [status |-> 0, success |-> TRUE]
    /\ inflight = {}
    /\ calls = [c \in Clients |-> IdleCall]

\* ------------------------------------------------------------------------
\* Actions
\* ------------------------------------------------------------------------
\* The clock advances between requests.
Tick ==
    /\ now < MaxClock
    /\ now' = now + 1
    /\ UNCHANGED <<transactions, balance, req, res>>

\* app.post('/deposit', ...)
Deposit(amount, description, rnd) ==
    /\ req' = [route |-> "deposit", amount |-> amount, description |-> description]
    /\ IF InvalidAmount(amount)
       THEN /\ res' = InvalidAmountResponse
            /\ UNCHANGED <<transactions, balance, now>>
       ELSE LET numAmount == ParseFloat(amount)
                transaction == [ id |-> generateTransactionId(rnd),
                                 type |-> "deposit",
                                 amount |-> numAmount,
                                 description |-> DescriptionOr(description, DepositDefault),
                                 timestamp |-> now ]
            IN  /\ Len(transactions) < MaxTx
                /\ transactions' = Push(transactions, transaction)
                /\ balance' = NewBalanceAfterDeposit(balance, numAmount)
                /\ res' = CreatedResponse(transaction, balance')
                /\ UNCHANGED now

\* app.post('/withdraw', ...)
Withdraw(amount, description, rnd) ==
    /\ req' = [route |-> "withdraw", amount |-> amount, description |-> description]
    /\ IF InvalidAmount(amount)
       THEN /\ res' = InvalidAmountResponse
            /\ UNCHANGED <<transactions, balance, now>>
       ELSE LET numAmount == ParseFloat(amount)
                transaction == [ id |-> generateTransactionId(rnd),
                                 type |-> "withdrawal",
                                 amount |-> numAmount,
                                 description |-> DescriptionOr(description, WithdrawalDefault),
                                 timestamp |-> now ]
            IN  IF InsufficientFunds(numAmount, balance)
                THEN /\ res' = InsufficientFundsResponse
                     /\ UNCHANGED <<transactions, balance, now>>
                ELSE /\ Len(transactions) < MaxTx
                     /\ transactions' = Push(transactions, transaction)
                     /\ balance' = NewBalanceAfterWithdrawal(balance, numAmount)
                     /\ res' = CreatedResponse(transaction, balance')
                     /\ UNCHANGED now

\* A balance read that also empties the account.
GetBalanceAndClear ==
    /\ req' = [route |-> "balance"]
    /\ res' = [ status |-> 200, success |-> TRUE,
                balance |-> balance, currency |-> "USD" ]
    /\ balance' = Fin(0)
    /\ UNCHANGED <<transactions, now>>

\* app.get('/balance', ...)
GetBalance ==
    /\ req' = [route |-> "balance"]
    /\ res' = [ status |-> 200, success |-> TRUE,
                balance |-> balance, currency |-> "USD" ]
    /\ UNCHANGED <<transactions, balance, now>>

\* const { limit = 50, offset = 0 } = req.query
QueryOr(value, dflt) == IF value.t = "undefined" THEN Num(Fin(dflt)) ELSE value

\* The copy of a transaction made by the .map() of GET /transactions.
TransactionView(t) ==
    [ id |-> t.id, type |-> t.type, amount |-> t.amount,
      description |-> t.description, timestamp |-> t.timestamp ]

LimitedTransactions(list, limit, offset) ==
    LET page == Slice(list, ParseInt(offset), IndexAdd(ParseInt(offset), ParseInt(limit)))
    IN  [i \in 1..Len(page) |-> TransactionView(page[i])]

\* app.get('/transactions', ...)
GetTransactions(limitParam, offsetParam) ==
    LET limit == QueryOr(limitParam, DefaultLimit)
        offset == QueryOr(offsetParam, DefaultOffset)
    IN  /\ req' = [route |-> "transactions", limit |-> limitParam, offset |-> offsetParam]
        /\ res' = [ status |-> 200, success |-> TRUE,
                    transactions |-> LimitedTransactions(transactions, limit, offset),
                    total |-> Len(transactions),
                    limit |-> ParseInt(limit),
                    offset |-> ParseInt(offset) ]
        /\ UNCHANGED <<transactions, balance, now>>

\* A lookup that ignores the id and takes the oldest transaction.
findOldest(list, id) == IF list = <<>> THEN <<>> ELSE <<list[1]>>

\* transactions.find(t => t.id === id): the first transaction with the id, as
\* a sequence of one element, or the empty sequence for undefined.
find(list, id) ==
    LET matches == {i \in 1..Len(list) : list[i].id = id}
    IN  IF matches = {} THEN <<>>
        ELSE <<list[CHOOSE i \in matches : \A j \in matches : i <= j]>>

\* A 404 that claims success.
NotFoundButSuccess ==
    [ status |-> 404, success |-> TRUE, error |-> "Transaction not found" ]

TransactionNotFoundResponse ==
    [ status |-> 404, success |-> FALSE, error |-> "Transaction not found" ]

\* app.get('/transactions/:id', ...)
GetTransaction(id) ==
    LET transaction == find(transactions, id)
    IN  /\ req' = [route |-> "transaction", id |-> id]
        /\ res' = IF transaction = <<>>
                  THEN TransactionNotFoundResponse
                  ELSE [ status |-> 200, success |-> TRUE,
                         transaction |-> transaction[1] ]
        /\ UNCHANGED <<transactions, balance, now>>

\* app.get('/health', ...)
GetHealth ==
    /\ req' = [route |-> "health"]
    /\ res' = [ status |-> 200, success |-> TRUE,
                message |-> "Ledger API is running", timestamp |-> now ]
    /\ UNCHANGED <<transactions, balance, now>>

EndpointNotFoundResponse ==
    [ status |-> 404, success |-> FALSE, error |-> "Endpoint not found" ]

\* app.use('*', ...): every method and path no route matches.
EndpointNotFound ==
    /\ req' = [route |-> "unknown"]
    /\ res' = EndpointNotFoundResponse
    /\ UNCHANGED <<transactions, balance, now>>

\* An id no transaction can carry: its random part is not of Math.random().
UnknownId == [ms |-> 0, rnd |-> "missing"]

\* The ids a caller may ask for: whatever the server can have issued, and one
\* it cannot.
IdInputs ==
    {[ms |-> m, rnd |-> r] : m \in 0..MaxClock, r \in RandomSuffixes} \cup {UnknownId}

\* One step of the server on a route that only reads.
ReadStep(ids) ==
    \/ \E id \in ids : GetTransaction(id) /\ UNCHANGED <<inflight, calls>>
    \/ GetHealth /\ UNCHANGED <<inflight, calls>>
    \/ EndpointNotFound /\ UNCHANGED <<inflight, calls>>

\* One step of the server with the request fields drawn from the given sets,
\* for requests that do not come from a LedgerClient.
Step(amounts, descriptions, suffixes, queries) ==
    \/ Tick /\ UNCHANGED <<inflight, calls>>
    \/ \E amount \in amounts, description \in descriptions, rnd \in suffixes :
          Deposit(amount, description, rnd) /\ UNCHANGED <<inflight, calls>>
    \/ \E amount \in amounts, description \in descriptions, rnd \in suffixes :
          Withdraw(amount, description, rnd) /\ UNCHANGED <<inflight, calls>>
    \/ GetBalance /\ UNCHANGED <<inflight, calls>>
    \/ \E limit \in queries, offset \in queries :
          GetTransactions(limit, offset) /\ UNCHANGED <<inflight, calls>>

\* Bookkeeping: every kind of amount, no description, one random suffix,
\* the default page.
Next == Step(AmountInputs, {Undefined}, {"5ni1fk1dl"}, {Undefined})

Spec == Init /\ [][Next]_vars

\* Identifiers: one amount, every random suffix.
NextIds == Step({Num(Fin(1)), Num(Fin(0))}, {Undefined}, RandomSuffixes, {Undefined})

SpecIds == Init /\ [][NextIds]_vars

\* Every route: one amount, every random suffix, every id.
NextRoutes ==
    \/ Step({Num(Fin(1)), Num(Fin(0))}, {Undefined}, RandomSuffixes, {Undefined})
    \/ ReadStep(IdInputs)

SpecRoutes == Init /\ [][NextRoutes]_vars

\* The system clock is set back (a clock correction): new Date() reads the
\* wall clock, which is not a monotonic clock.
ClockSetBack ==
    /\ now > 0
    /\ now' = now - 1
    /\ UNCHANGED <<transactions, balance, req, res>>

\* Timestamps: one amount, a clock that runs and is corrected.
NextClock ==
    \/ Step({Num(Fin(1)), Num(Fin(0))}, {Undefined}, {"5ni1fk1dl"}, {Undefined})
    \/ ClockSetBack /\ UNCHANGED <<inflight, calls>>

SpecClock == Init /\ [][NextClock]_vars

\* Descriptions: one amount, every kind of description.
NextDescriptions ==
    Step({Num(Fin(1)), Num(Fin(0))}, DescriptionInputs, {"5ni1fk1dl"}, {Undefined})

SpecDescriptions == Init /\ [][NextDescriptions]_vars

\* An error answer that passes the message of the error on.
ErrorMessageResponse ==
    [ status |-> 500, success |-> FALSE,
      error |-> "Unexpected token } in JSON at position 12" ]

InternalErrorResponse ==
    [ status |-> 500, success |-> FALSE, error |-> "Internal server error" ]

\* app.use((err, req, res, next) => ...): express.json() cannot parse the
\* body of a POST and hands its error to the error handler; no route handler
\* runs.
BodyParseError(route) ==
    /\ req' = [route |-> route, failure |-> "entity.parse.failed"]
    /\ res' = InternalErrorResponse
    /\ UNCHANGED <<transactions, balance, now>>

\* Failures: one amount, and POST bodies that are not JSON.
NextErrors ==
    \/ Step({Num(Fin(1)), Num(Fin(0))}, {Undefined}, {"5ni1fk1dl"}, {Undefined})
    \/ \E route \in {"deposit", "withdraw"} :
          BodyParseError(route) /\ UNCHANGED <<inflight, calls>>

SpecErrors == Init /\ [][NextErrors]_vars

\* Pagination: one amount, every query value.
NextList == Step({Num(Fin(1)), Num(Fin(0))}, {Undefined}, {"5ni1fk1dl"}, QueryInputs)

SpecList == Init /\ [][NextList]_vars

\* ------------------------------------------------------------------------
\* Aggregations over the history (LedgerClient.getTransactionStats)
\* ------------------------------------------------------------------------
OfType(list, type) == SelectSeq(list, LAMBDA t : t.type = type)

\* list.reduce((sum, t) => sum + t.amount, 0)
RECURSIVE SumAmounts(_)
SumAmounts(list) ==
    IF list = <<>> THEN Fin(0)
    ELSE FAdd(SumAmounts(SubSeq(list, 1, Len(list) - 1)), list[Len(list)].amount)

TotalDeposits(list) == SumAmounts(OfType(list, "deposit"))
TotalWithdrawals(list) == SumAmounts(OfType(list, "withdrawal"))

\* netFlow: totalDeposits - totalWithdrawals
NetFlow(list) == FSub(TotalDeposits(list), TotalWithdrawals(list))

\* ------------------------------------------------------------------------
\* LedgerClient (src/ledger-client.js)
\* ------------------------------------------------------------------------
\* Every method is an async function: it runs up to its next await, and the
\* code after the await runs when the awaited responses have arrived.  A
\* request that was sent stays in flight until the server handles it, so
\* requests of different clients are handled in any order.  The response is
\* handed to the waiting method in the step that handles the request: the
\* method reads nothing but its own variables and the response.
DefaultSummaryLimit == 5

\* getTransactions({ limit: 1000 }): the limit of getTransactionStats, scaled
\* with the bound of the history so that a history longer than the limit is
\* within reach.
StatsLimit == MaxTx - 1

\* A division that drops the fraction.
FDivTruncated(x, n) == IF IsFinite(x) THEN Fin(x.v \div n) ELSE x

\* x / n for a count n > 0.
FDiv(x, n) == IF IsFinite(x) THEN RoundRat(x.v, n) ELSE x

\* The length of the numeric literal a string starts with.
LiteralLength(t) ==
    LET signed == t # <<>> /\ Head(t) \in {"-", "+"}
        u == IF signed THEN Tail(t) ELSE t
        ip == DigitPrefix(u)
        afterInt == Drop(u, Len(ip))
        hasDot == afterInt # <<>> /\ Head(afterInt) = "."
        fp == IF hasDot THEN DigitPrefix(Tail(afterInt)) ELSE <<>>
        sign == IF signed THEN 1 ELSE 0
    IN  IF StartsWith(u, InfinityChars) THEN sign + Len(InfinityChars)
        ELSE IF ip = <<>> /\ fp = <<>> THEN 0
        ELSE sign + Len(ip) + (IF hasDot THEN 1 + Len(fp) ELSE 0)

\* The number a value is converted to by a comparison such as amount <= 0:
\* a string must be a numeric literal as a whole, the empty string is 0.
ToNumber(x) ==
    CASE x.t = "number" -> x.n
      [] x.t = "boolean" -> x.n
      [] x.t = "null" -> Fin(0)
      [] x.t = "string" ->
            LET t == TrimLeft(x.s)
            IN  IF t = <<>> THEN Fin(0)
                ELSE IF LiteralLength(t) = Len(t) THEN ParseFloatChars(t)
                ELSE NaN
      [] OTHER -> NaN

\* A guard that only refuses a missing amount.
InvalidClientAmountWhenMissing(amount) == ~Truthy(amount)

\* The guard of deposit(), withdraw() and transfer(): !amount || amount <= 0.
InvalidClientAmount(amount) ==
    \/ ~Truthy(amount)
    \/ LET n == ToNumber(amount) IN ~IsNaN(n) /\ ~FGt(n, Fin(0))

\* JSON.stringify of a body field: Infinity and NaN are written as null.
JsonField(x) == IF x.t = "number" /\ ~IsFinite(x.n) THEN Null ELSE x

\* response.ok
Ok(response) == response.status \in 200..299

Request(c, route, amount, description, limit) ==
    [ from |-> c, route |-> route, amount |-> amount,
      description |-> description, limit |-> limit ]

GetRequest(c, route, limit) == Request(c, route, Undefined, Undefined, limit)

\* The client runs no method: it never called one, or its last call returned
\* or threw.
Ready(c) == calls[c].pc \in {"idle", "done", "failed"}

\* A method that threw: the message of the Error is kept as the sequence of
\* the texts it is concatenated from.
Thrown(op, message) ==
    [IdleCall EXCEPT !.op = op, !.pc = "failed", !.result = [error |-> message]]

\* request() throws on a response that is not ok: the method fails with the
\* wrapped message.
RequestFailed(op, response) ==
    Thrown(op, <<"API request failed: ", response.error>>)

\* deposit() and withdraw() return the body of the response.
Returned(call, response) ==
    IF Ok(response)
    THEN [call EXCEPT !.pc = "done", !.result = response]
    ELSE RequestFailed(call.op, response)

\* The body of deposit(amount) and of withdraw(amount): the amount is checked,
\* then the request is sent with the default description of the method.
Post(c, op, amount, dflt) ==
    /\ IF InvalidClientAmount(amount)
       THEN /\ calls' = [calls EXCEPT ![c] = Thrown(op, <<"Amount must be a positive number">>)]
            /\ UNCHANGED inflight
       ELSE /\ calls' = [calls EXCEPT ![c] = [IdleCall EXCEPT !.op = op, !.pc = op]]
            /\ inflight' = inflight \cup
                  {Request(c, op, JsonField(amount), Str(dflt), 0)}
    /\ UNCHANGED <<transactions, balance, now, req, res>>

\* deposit(amount)
StartDeposit(c, amount) ==
    /\ Ready(c)
    /\ Post(c, "deposit", amount, DepositDefault)

\* withdraw(amount)
StartWithdraw(c, amount) ==
    /\ Ready(c)
    /\ Post(c, "withdraw", amount, WithdrawalDefault)

TransferDefault == <<"T", "r", "a", "n", "s", "f", "e", "r">>

\* `Transfer out: ${description}` and `Transfer in: ${description}`
TransferOut(description) == <<"T", "r", "a", "n", "s", "f", "e", "r", " ", "o", "u", "t", ":", " ">> \o description
TransferIn(description) == <<"T", "r", "a", "n", "s", "f", "e", "r", " ", "i", "n", ":", " ">> \o description

\* A transfer result that reports the balance between its two requests.
TransferResultMidway(amount, withdrawal, deposit) ==
    [ success |-> TRUE,
      transferAmount |-> amount,
      description |-> Str(TransferDefault),
      withdrawal |-> withdrawal.transaction,
      deposit |-> deposit.transaction,
      finalBalance |-> withdrawal.newBalance ]

\* The object transfer returns.
TransferResult(amount, withdrawal, deposit) ==
    [ success |-> TRUE,
      transferAmount |-> amount,
      description |-> Str(TransferDefault),
      withdrawal |-> withdrawal.transaction,
      deposit |-> deposit.transaction,
      finalBalance |-> deposit.newBalance ]

\* An error of withdraw() or deposit() caught by transfer().
TransferFailed(response) ==
    Thrown("transfer", <<"Transfer failed: ">> \o
                       RequestFailed("transfer", response).result.error)

\* transfer(amount): the amount is checked, then withdraw() checks it again
\* and sends POST /withdraw.
StartTransfer(c, amount) ==
    /\ Ready(c)
    /\ IF InvalidClientAmount(amount)
       THEN /\ calls' = [calls EXCEPT ![c] =
                            Thrown("transfer", <<"Amount must be a positive number">>)]
            /\ UNCHANGED inflight
       ELSE /\ calls' = [calls EXCEPT ![c] =
                            [IdleCall EXCEPT !.op = "transfer", !.pc = "withdraw",
                                             !.amount = amount]]
            /\ inflight' = inflight \cup
                  {Request(c, "withdraw", JsonField(amount),
                           Str(TransferOut(TransferDefault)), 0)}
    /\ UNCHANGED <<transactions, balance, now, req, res>>

\* The method of the call goes on with the response to POST /withdraw:
\* withdraw() returns or throws; transfer() keeps the withdrawal and calls
\* deposit(), or throws.
AfterWithdraw(call, response) ==
    IF call.op = "transfer"
    THEN IF Ok(response)
         THEN [call EXCEPT !.pc = "deposit", !.withdrawal = response]
         ELSE TransferFailed(response)
    ELSE Returned(call, response)

\* The method of the call goes on with the response to POST /deposit.
AfterDeposit(call, response) ==
    IF call.op = "transfer"
    THEN IF Ok(response)
         THEN [call EXCEPT !.pc = "done",
                           !.result = TransferResult(call.amount, call.withdrawal,
                                                     response)]
         ELSE TransferFailed(response)
    ELSE Returned(call, response)

\* The server handles a POST /deposit that is in flight.
ServeDeposit(rnd) ==
    \E r \in inflight :
        /\ r.route = "deposit"
        /\ Deposit(r.amount, r.description, rnd)
        /\ inflight' = inflight \ {r}
        /\ calls' = [calls EXCEPT ![r.from] = AfterDeposit(@, res')]

\* The server handles a POST /withdraw that is in flight; transfer() then
\* sends its POST /deposit.
ServeWithdraw(rnd) ==
    \E r \in inflight :
        /\ r.route = "withdraw"
        /\ Withdraw(r.amount, r.description, rnd)
        /\ calls' = [calls EXCEPT ![r.from] = AfterWithdraw(@, res')]
        /\ inflight' = (inflight \ {r}) \cup
              (IF calls'[r.from].op = "transfer" /\ calls'[r.from].pc = "deposit"
               THEN {Request(r.from, "deposit", JsonField(calls'[r.from].amount),
                             Str(TransferIn(TransferDefault)), 0)}
               ELSE {})

\* The object getTransactionStats returns, from the body of GET /transactions
\* and the body of GET /balance.
StatsResult(listing, bal) ==
    LET deposits == OfType(listing.transactions, "deposit")
        withdrawals == OfType(listing.transactions, "withdrawal")
        totalDeposits == SumAmounts(deposits)
        totalWithdrawals == SumAmounts(withdrawals)
    IN  [ success |-> TRUE,
          currentBalance |-> bal.balance,
          totalTransactions |-> listing.total,
          totalDeposits |-> totalDeposits,
          totalWithdrawals |-> totalWithdrawals,
          depositCount |-> Len(deposits),
          withdrawalCount |-> Len(withdrawals),
          averageDeposit |-> IF Len(deposits) > 0
                             THEN FDiv(totalDeposits, Len(deposits)) ELSE Fin(0),
          averageWithdrawal |-> IF Len(withdrawals) > 0
                                THEN FDiv(totalWithdrawals, Len(withdrawals))
                                ELSE Fin(0),
          netFlow |-> FSub(totalDeposits, totalWithdrawals) ]

\* The object getAccountSummary returns.
SummaryResult(listing, bal) ==
    [ success |-> TRUE,
      balance |-> bal.balance,
      currency |-> bal.currency,
      recentTransactions |-> listing.transactions,
      totalTransactions |-> listing.total ]

\* getTransactionStats(): up to the first await, GET /transactions is sent.
StartStats(c) ==
    /\ Ready(c)
    /\ calls' = [calls EXCEPT ![c] =
                    [IdleCall EXCEPT !.op = "getTransactionStats", !.pc = "transactions"]]
    /\ inflight' = inflight \cup {GetRequest(c, "transactions", StatsLimit)}
    /\ UNCHANGED <<transactions, balance, now, req, res>>

\* getAccountSummary(transactionLimit): Promise.all sends GET /balance and
\* GET /transactions before it awaits either.
StartSummary(c, transactionLimit) ==
    LET limit == IF transactionLimit.t = "undefined"
                 THEN DefaultSummaryLimit ELSE transactionLimit.n.v
    IN  /\ Ready(c)
        /\ calls' = [calls EXCEPT ![c] =
                        [IdleCall EXCEPT !.op = "getAccountSummary", !.pc = "all"]]
        /\ inflight' = inflight \cup { GetRequest(c, "balance", 0),
                                       GetRequest(c, "transactions", limit) }
        /\ UNCHANGED <<transactions, balance, now, req, res>>

\* The method of the call goes on with the body of GET /transactions.
AfterTransactions(call, response) ==
    IF call.op = "getTransactionStats"
    THEN IF Ok(response)
         THEN [call EXCEPT !.pc = "balance", !.transactions = response]
         ELSE Thrown(call.op, <<"Failed to get transaction stats: ">> \o
                                RequestFailed(call.op, response).result.error)
    ELSE IF ~Ok(response)
         THEN Thrown(call.op, <<"Failed to get account summary: ">> \o
                                RequestFailed(call.op, response).result.error)
         ELSE IF call.balance = NoResponse
              THEN [call EXCEPT !.transactions = response]
              ELSE [call EXCEPT !.pc = "done", !.transactions = response,
                                !.result = SummaryResult(response, call.balance)]

\* The method of the call goes on with the body of GET /balance.
AfterBalance(call, response) ==
    IF call.op = "getTransactionStats"
    THEN IF Ok(response)
         THEN [call EXCEPT !.pc = "done", !.balance = response,
                           !.result = StatsResult(call.transactions, response)]
         ELSE Thrown(call.op, <<"Failed to get transaction stats: ">> \o
                                RequestFailed(call.op, response).result.error)
    ELSE IF ~Ok(response)
         THEN Thrown(call.op, <<"Failed to get account summary: ">> \o
                                RequestFailed(call.op, response).result.error)
         ELSE IF call.transactions = NoResponse
              THEN [call EXCEPT !.balance = response]
              ELSE [call EXCEPT !.pc = "done", !.balance = response,
                                !.result = SummaryResult(call.transactions, response)]

\* The server handles a GET /transactions that is in flight; the client sent
\* limit.toString() and offset.toString().  getTransactionStats then sends
\* its GET /balance.
ServeTransactions ==
    \E r \in inflight :
        /\ r.route = "transactions"
        /\ GetTransactions(Str(DecimalString(r.limit)), Str(DecimalString(DefaultOffset)))
        /\ calls' = [calls EXCEPT ![r.from] = AfterTransactions(@, res')]
        /\ inflight' = (inflight \ {r}) \cup
              (IF calls'[r.from].pc = "balance"
               THEN {GetRequest(r.from, "balance", 0)} ELSE {})

\* The server handles a GET /balance that is in flight.
ServeBalance ==
    \E r \in inflight :
        /\ r.route = "balance"
        /\ GetBalance
        /\ calls' = [calls EXCEPT ![r.from] = AfterBalance(@, res')]
        /\ inflight' = inflight \ {r}

\* An id argument is a transaction id (a non-empty string) or some other
\* JavaScript value.
IsId(x) == "ms" \in DOMAIN x

\* A guard that lets everything but undefined through.
MissingIdWhenUndefined(transactionId) ==
    ~IsId(transactionId) /\ transactionId.t = "undefined"

\* The guard of getTransaction(): !transactionId.
MissingId(transactionId) == ~IsId(transactionId) /\ ~Truthy(transactionId)

\* GET /transactions/${transactionId}
IdRequest(c, transactionId) ==
    [ from |-> c, route |-> "transaction", amount |-> Undefined,
      description |-> Undefined, limit |-> 0, id |-> transactionId ]

\* getTransaction(transactionId)
StartGetTransaction(c, transactionId) ==
    /\ Ready(c)
    /\ IF MissingId(transactionId)
       THEN /\ calls' = [calls EXCEPT ![c] =
                            Thrown("getTransaction", <<"Transaction ID is required">>)]
            /\ UNCHANGED inflight
       ELSE /\ calls' = [calls EXCEPT ![c] =
                            [IdleCall EXCEPT !.op = "getTransaction", !.pc = "transaction"]]
            /\ inflight' = inflight \cup {IdRequest(c, transactionId)}
    /\ UNCHANGED <<transactions, balance, now, req, res>>

\* The server handles a GET /transactions/:id that is in flight.
ServeTransaction ==
    \E r \in inflight :
        /\ r.route = "transaction"
        /\ GetTransaction(r.id)
        /\ inflight' = inflight \ {r}
        /\ calls' = [calls EXCEPT ![r.from] = Returned(@, res')]

\* The arguments getTransaction is called with: nothing, null, the empty
\* string, the id of the first transaction, an id of no transaction.
IdArguments ==
    { Undefined, Null, Str(<<>>), [ms |-> 0, rnd |-> "5ni1fk1dl"], UnknownId }

\* Clients that look transactions up.
LookupStep(clients, ids) ==
    \/ \E c \in clients, transactionId \in ids : StartGetTransaction(c, transactionId)
    \/ ServeTransaction

\* fetch() rejects for a POST that is in flight (the server cannot be
\* reached): the server never handles the request, request() throws
\* 'API request failed: ...', and transfer() rethrows it.
FetchFails ==
    \E r \in inflight :
        /\ r.route \in {"deposit", "withdraw"}
        /\ inflight' = inflight \ {r}
        /\ calls' = [calls EXCEPT ![r.from] =
              Thrown(@.op, (IF @.op = "transfer" THEN <<"Transfer failed: ">> ELSE <<>>)
                           \o <<"API request failed: ", "fetch failed">>)]
        /\ UNCHANGED <<transactions, balance, now, req, res>>

\* Clients that transfer.
TransferStep(clients, amounts) ==
    \E c \in clients, amount \in amounts : StartTransfer(c, amount)

\* Clients that deposit and withdraw.
WriterStep(clients, amounts, suffixes) ==
    \/ \E c \in clients, amount \in amounts : StartDeposit(c, amount)
    \/ \E c \in clients, amount \in amounts : StartWithdraw(c, amount)
    \/ \E rnd \in suffixes : ServeDeposit(rnd)
    \/ \E rnd \in suffixes : ServeWithdraw(rnd)

\* Clients that read statistics and summaries.
ReaderStep(clients, limits) ==
    \/ \E c \in clients : StartStats(c)
    \/ \E c \in clients, transactionLimit \in limits : StartSummary(c, transactionLimit)
    \/ ServeTransactions
    \/ ServeBalance

\* Two clients that deposit and withdraw at the same time.
NextWriters == WriterStep(Clients, {Num(Fin(1)), Num(Fin(2))}, {"5ni1fk1dl"})

SpecWriters == Init /\ [][NextWriters]_vars

\* Client A reads statistics and summaries while client B deposits and
\* withdraws.
NextReaders ==
    \/ WriterStep({"B"}, {Num(Fin(1))}, {"5ni1fk1dl"})
    \/ ReaderStep({"A"}, {Undefined})

SpecReaders == Init /\ [][NextReaders]_vars

\* The amounts a caller passes to deposit, withdraw and transfer: nothing,
\* null, numbers and a text.
ClientAmounts ==
    { Undefined, Null, Num(Fin(0)), Num(Fin(-1)), Num(Fin(1)), Num(PosInf),
      Str(<<"a", "b", "c">>) }

\* One client that deposits, withdraws and transfers every kind of amount.
NextAmounts ==
    \/ WriterStep({"A"}, ClientAmounts, {"5ni1fk1dl"})
    \/ TransferStep({"A"}, ClientAmounts)

SpecAmounts == Init /\ [][NextAmounts]_vars

\* Client A reads statistics while client B deposits and withdraws two
\* different amounts.
NextAverages ==
    \/ WriterStep({"B"}, {Num(Fin(1)), Num(Fin(2))}, {"5ni1fk1dl"})
    \/ ReaderStep({"A"}, {Undefined})

SpecAverages == Init /\ [][NextAverages]_vars

\* Client A transfers while client B deposits and withdraws, on a network
\* that can fail.
NextTransfer ==
    \/ WriterStep({"B"}, {Num(Fin(1))}, {"5ni1fk1dl"})
    \/ TransferStep({"A"}, {Num(Fin(1))})
    \/ FetchFails

SpecTransfer == Init /\ [][NextTransfer]_vars

\* The amounts passed to transfer: two numbers and a text that starts with a
\* number.
TransferAmounts == { Num(Fin(1)), Num(Fin(2)), Str(<<"2", "x">>) }

\* Client A transfers several amounts while client B deposits and withdraws
\* amounts large enough for a subtraction to round.
NextRoundTrip ==
    \/ WriterStep({"B"}, {Num(Fin(2)), Num(Fin(6))}, {"5ni1fk1dl"})
    \/ TransferStep({"A"}, TransferAmounts)

SpecRoundTrip == Init /\ [][NextRoundTrip]_vars

\* Client A looks transactions up while client B deposits and withdraws.
NextLookup ==
    \/ WriterStep({"B"}, {Num(Fin(1))}, {"5ni1fk1dl"})
    \/ LookupStep({"A"}, IdArguments)

SpecLookup == Init /\ [][NextLookup]_vars

\* Client A asks for summaries of two transactions while client B deposits
\* and withdraws.
NextSummary ==
    \/ WriterStep({"B"}, {Num(Fin(1))}, {"5ni1fk1dl"})
    \/ ReaderStep({"A"}, {Num(Fin(2))})

SpecSummary == Init /\ [][NextSummary]_vars

\* ------------------------------------------------------------------------
\* Vocabulary of the properties
\* ------------------------------------------------------------------------
\* The balance obtained by applying a history in order to bal.
RECURSIVE ReplayFrom(_, _)
ReplayFrom(bal, list) ==
    IF list = <<>> THEN bal
    ELSE ReplayFrom(IF Head(list).type = "deposit"
                    THEN FAdd(bal, Head(list).amount)
                    ELSE FSub(bal, Head(list).amount),
                    Tail(list))

\* The sum of finite amounts as a mathematical integer.
RECURSIVE ExactSum(_)
ExactSum(list) ==
    IF list = <<>> THEN 0 ELSE Head(list).amount.v + ExactSum(Tail(list))

AllAmountsFinite(list) == \A i \in 1..Len(list) : IsFinite(list[i].amount)

\* No addition or subtraction of the history can have been rounded: the
\* amounts are finite and the deposits sum to less than 2^MantissaBits.
NoRounding(list) ==
    /\ AllAmountsFinite(list)
    /\ ExactSum(OfType(list, "deposit")) < Pow2(MantissaBits)

\* x <= y of JavaScript.
FLe(x, y) == ~IsNaN(x) /\ ~IsNaN(y) /\ ~FGt(x, y)

Unchanged == balance' = balance /\ transactions' = transactions

\* The whole text is one decimal literal or Infinity, blanks around it
\* allowed.
NumericText(s) ==
    LET t == TrimLeft(s)
        signed == t # <<>> /\ Head(t) \in {"-", "+"}
        u == IF signed THEN Tail(t) ELSE t
        ip == DigitPrefix(u)
        afterInt == Drop(u, Len(ip))
        hasDot == afterInt # <<>> /\ Head(afterInt) = "."
        fp == IF hasDot THEN DigitPrefix(Tail(afterInt)) ELSE <<>>
        rest == IF StartsWith(u, InfinityChars) THEN Drop(u, Len(InfinityChars))
                ELSE IF hasDot THEN Drop(afterInt, 1 + Len(fp)) ELSE afterInt
    IN  /\ StartsWith(u, InfinityChars) \/ ip # <<>> \/ fp # <<>>
        /\ TrimLeft(rest) = <<>>

\* The amount is a number, or a text that is a number.
IsNumeric(x) ==
    \/ x.t = "number" /\ ~IsNaN(x.n)
    \/ x.t = "string" /\ NumericText(x.s)

\* The amount is missing, zero, negative or not a numeric value.
NotAPositiveNumber(x) ==
    \/ x.t \in {"undefined", "null"}
    \/ ~IsNumeric(x)
    \/ ~FGt(ParseFloat(x), Fin(0))

\* ------------------------------------------------------------------------
\* Properties
\* ------------------------------------------------------------------------
\* The step handles a request of the route (every step but a clock tick
\* does).
Handles(route) == ~Tick /\ req'.route = route

\* The request handled last was a deposit / withdrawal with this outcome.
Answered(route, status) == req.route = route /\ res.status = status

\* C1 as stated: in every reachable state the balance equals the total of the
\* recorded deposits minus the total of the recorded withdrawals.
C1_BalanceIsNetFlow == balance = NetFlow(transactions)

\* C1 amended: in every reachable state the balance is the result of applying
\* the recorded transactions in order, each addition and subtraction rounded
\* as a floating-point operation; it equals total deposits minus total
\* withdrawals whenever no operation can have been rounded.
C1_BalanceIsReplay ==
    /\ balance = ReplayFrom(Fin(0), transactions)
    /\ NoRounding(transactions) =>
          /\ balance = Fin(ExactSum(OfType(transactions, "deposit"))
                            - ExactSum(OfType(transactions, "withdrawal")))
          /\ balance = NetFlow(transactions)

\* Deposits and a withdrawal are recorded, none of them rounded, and the
\* last request was rejected.
C1_Witness ==
    /\ Len(transactions) = 3
    /\ OfType(transactions, "withdrawal") # <<>>
    /\ NoRounding(transactions)
    /\ res.status = 400

\* C2 as stated: in every reachable state balance >= 0.
C2_BalanceNonNegative == ~IsNaN(balance) /\ ~FGt(Fin(0), balance)

\* C3: a withdrawal whose valid amount is greater than the balance is
\* answered 400 'Insufficient funds' and leaves balance and history as they
\* were.
C3_InsufficientFundsRejected ==
    [][(/\ Handles("withdraw")
        /\ ~InvalidAmount(req'.amount)
        /\ FGt(ParseFloat(req'.amount), balance)) =>
            /\ res'.status = 400
            /\ res'.success = FALSE
            /\ res'.error = "Insufficient funds"
            /\ Unchanged]_vars

\* A withdrawal of a valid amount was refused for lack of funds although the
\* balance is positive.
C3_Witness ==
    /\ Answered("withdraw", 400)
    /\ ~InvalidAmount(req.amount)
    /\ FGt(ParseFloat(req.amount), balance)
    /\ FGt(balance, Fin(0))

\* C4 as stated: a deposit or withdrawal whose amount is missing, zero,
\* negative or not a numeric value is answered 400 and leaves balance and
\* history as they were.
C4_InvalidAmountRejected ==
    [][(/\ Handles("deposit") \/ Handles("withdraw")
        /\ NotAPositiveNumber(req'.amount)) =>
            /\ res'.status = 400
            /\ res'.success = FALSE
            /\ Unchanged]_vars

\* C5 as stated: every recorded amount is a finite number greater than zero
\* and the balance is a finite number.
C5_AmountsAndBalanceFinite ==
    /\ IsFinite(balance)
    /\ \A i \in 1..Len(transactions) :
          IsFinite(transactions[i].amount) /\ transactions[i].amount.v > 0

\* What an accepted request of the type records and answers, the new balance
\* left aside: status 201, one transaction of the type and amount appended
\* to the history and returned, newBalance the balance after the step, the
\* clock untouched.
Recorded(type) ==
    /\ res'.status = 201
    /\ res'.success = TRUE
    /\ Len(transactions') = Len(transactions) + 1
    /\ SubSeq(transactions', 1, Len(transactions)) = transactions
    /\ transactions'[Len(transactions')] = res'.transaction
    /\ res'.transaction.type = type
    /\ res'.transaction.amount = ParseFloat(req'.amount)
    /\ res'.newBalance = balance'
    /\ now' = now

C8_AppendOnly ==
    [][/\ Len(transactions') >= Len(transactions)
       /\ SubSeq(transactions', 1, Len(transactions)) = transactions]_vars

\* The history holds a deposit followed by a withdrawal of another amount.
C8_Witness ==
    /\ Len(transactions) >= 2
    /\ transactions[1].type = "deposit"
    /\ transactions[2].type = "withdrawal"
    /\ transactions[1].amount # transactions[2].amount

\* C9 as stated: no two transactions of the history have the same id.
C9_UniqueIds ==
    \A i, j \in 1..Len(transactions) :
        i # j => transactions[i].id # transactions[j].id

\* The parameter of a query for the number n; -1 stands for a parameter that
\* is left out.
QueryParam ==
    [n \in QueryNumbers \cup {-1} |->
        IF n = -1 THEN Undefined ELSE Str(DecimalString(n))]

\* C10: for limit and offset given as non-negative integers, or left out
\* (limit 50, offset 0), the page is the part of the history that starts
\* at index offset and holds min(limit, max(0, total - offset)) entries, in
\* order, and total is the length of the history.
C10_PageIsWindow ==
    [][Handles("transactions") =>
        \A l, o \in QueryNumbers \cup {-1} :
          (req'.limit = QueryParam[l] /\ req'.offset = QueryParam[o]) =>
              LET limit == IF l = -1 THEN 50 ELSE l
                  offset == IF o = -1 THEN 0 ELSE o
                  total == Len(transactions)
                  count == Min(limit, Max(0, total - offset))
              IN  /\ res'.status = 200
                  /\ res'.total = total
                  /\ Len(res'.transactions) = count
                  /\ \A i \in 1..count :
                        res'.transactions[i] = transactions[offset + i]
                  /\ Unchanged]_vars

\* A page of one entry was cut out of the middle of a history of three.
C10_Witness ==
    /\ Answered("transactions", 200)
    /\ req.limit = QueryParam[1]
    /\ req.offset = QueryParam[1]
    /\ res.total = 3
    /\ res.transactions = <<transactions[2]>>

\* The history as GET /transactions shows it.
HistoryView == [i \in 1..Len(transactions) |-> TransactionView(transactions[i])]

\* The pages of size n read one after the other from offset on, until a page
\* comes back empty, put end to end.
RECURSIVE PagesFrom(_, _, _)
PagesFrom(list, n, offset) ==
    LET page == LimitedTransactions(list, Str(DecimalString(n)),
                                    Str(DecimalString(offset)))
    IN  IF Len(page) = 0 THEN <<>> ELSE page \o PagesFrom(list, n, offset + n)

PageSizes == {1, 2, 3, 50}

\* C11: for every page size N >= 1 the pages at offsets 0, N, 2N, ... up to
\* the first empty page, put end to end, are the whole history in insertion
\* order, every transaction once.
C11_PagesRebuildHistory ==
    \A n \in PageSizes : PagesFrom(transactions, n, 0) = HistoryView

\* The last, short page of a history of three read two at a time.
C11_Witness ==
    /\ Answered("transactions", 200)
    /\ req.limit = QueryParam[2]
    /\ req.offset = QueryParam[2]
    /\ Len(transactions) = 3
    /\ res.transactions = <<transactions[3]>>

\* C12: GET /transactions always answers 200 with success true and the full
\* count as total, and with an offset at or past the end of the history the
\* page is empty.
C12_ListNeverFails ==
    [][Handles("transactions") =>
        /\ res'.status = 200
        /\ res'.success = TRUE
        /\ res'.total = Len(transactions)
        /\ \A o \in QueryNumbers :
              (req'.offset = QueryParam[o] /\ o >= Len(transactions)) =>
                  Len(res'.transactions) = 0]_vars

\* An offset past the end of a history of three gave an empty page.
C12_Witness ==
    /\ Answered("transactions", 200)
    /\ req.offset = QueryParam[4]
    /\ res.total = 3
    /\ Len(res.transactions) = 0

\* Query values that are negative or not a number.
BadQueryInputs == {Str(<<"-", "1">>), Str(<<"a", "b", "c">>), Str(<<>>)}

ClampedQuery(x) == IF x \in BadQueryInputs THEN Str(<<"0">>) ELSE x

\* C13 as stated: with a negative or non-numeric limit or offset the request
\* is rejected, or answered exactly as if that value were 0.
C13_BadQueryRejectedOrZero ==
    [][(/\ Handles("transactions")
        /\ req'.limit \in BadQueryInputs \/ req'.offset \in BadQueryInputs) =>
            \/ res'.status >= 400
            \/ res'.transactions =
                  LimitedTransactions(transactions,
                                      QueryOr(ClampedQuery(req'.limit), 50),
                                      QueryOr(ClampedQuery(req'.offset), 0))]_vars

\* C14 as stated: a lookup by the id of any recorded transaction answers 200
\* with that transaction: the same id, type, amount, description and
\* timestamp.
C14_LookupReturnsRecorded ==
    [][Handles("transaction") =>
        \A i \in 1..Len(transactions) :
            req'.id = transactions[i].id =>
                /\ res'.status = 200
                /\ res'.transaction = transactions[i]]_vars

\* C15: a lookup by an id that no recorded transaction carries answers 404
\* with success false and 'Transaction not found', and changes nothing.
C15_UnknownIdNotFound ==
    [][(/\ Handles("transaction")
        /\ \A i \in 1..Len(transactions) : transactions[i].id # req'.id) =>
            /\ res'.status = 404
            /\ res'.success = FALSE
            /\ res'.error = "Transaction not found"
            /\ Unchanged]_vars

\* A lookup of an unknown id in a history that is not empty was answered 404.
C15_Witness ==
    /\ Answered("transaction", 404)
    /\ req.id = UnknownId
    /\ Len(transactions) > 0

\* The step handles the request r of a client.
Served(r) == r \in inflight /\ r \notin inflight'

\* The step ends the call of the method op by client c with a result.
Completes(c, op) ==
    /\ calls[c].pc # "done"
    /\ calls'[c].pc = "done"
    /\ calls'[c].op = op

\* C16 as stated: when getTransactionStats returns and the history did not
\* change during the call, netFlow = totalDeposits - totalWithdrawals =
\* currentBalance and depositCount + withdrawalCount = totalTransactions,
\* whatever the length of the history.
C16_StatsCoverHistory ==
    [][\A c \in Clients :
        (/\ Completes(c, "getTransactionStats")
         /\ calls'[c].transactions.total = Len(transactions)) =>
            LET r == calls'[c].result
            IN  /\ r.netFlow = FSub(r.totalDeposits, r.totalWithdrawals)
                /\ r.netFlow = r.currentBalance
                /\ r.depositCount + r.withdrawalCount = r.totalTransactions]_vars

\* C17: a deposit or withdrawal of a client is handled in one step against
\* the balance of that very moment: a withdrawal is accepted exactly when its
\* amount is not greater than the balance, an accepted request appends its
\* transaction and updates the balance together, a refused one changes
\* nothing; so between requests the balance is always the replay of the
\* history and never negative, however the requests of the clients interleave.
C17_WritesAreAtomic ==
    [][/\ \A r \in inflight :
            Served(r) =>
                LET a == r.amount.n
                    expected == IF r.route = "deposit"
                                THEN FAdd(balance, a) ELSE FSub(balance, a)
                    accepted == r.route = "deposit" \/ ~FGt(a, balance)
                IN  IF accepted
                    THEN /\ res'.status = 201
                         /\ transactions' = Append(transactions, res'.transaction)
                         /\ res'.transaction.amount = a
                         /\ balance' = expected
                    ELSE /\ res'.status = 400
                         /\ Unchanged
       /\ balance' = ReplayFrom(Fin(0), transactions')
       /\ ~FGt(Fin(0), balance')]_vars

\* Both clients withdrew the whole balance of 2: one withdrawal was recorded,
\* the other, handled last, was refused.
C17_Witness ==
    /\ \A c \in Clients : calls[c].op = "withdraw"
    /\ \E c \in Clients : calls[c].pc = "done" /\ calls[c].result.status = 201
    /\ \E c \in Clients : calls[c].pc = "failed"
    /\ Answered("withdraw", 400)
    /\ res.error = "Insufficient funds"
    /\ req.amount = Num(Fin(2))
    /\ balance = Fin(0)
    /\ Len(transactions) = 2

\* C18 as stated: the values one getTransactionStats call or one
\* getAccountSummary call returns describe one ledger state: the balance
\* returned is the balance of the history of the length returned as total.
C18_ReadsAreSnapshots ==
    [][\A c \in Clients :
        /\ Completes(c, "getTransactionStats") =>
              calls'[c].result.currentBalance =
                  ReplayFrom(Fin(0), SubSeq(transactions, 1,
                                            calls'[c].result.totalTransactions))
        /\ Completes(c, "getAccountSummary") =>
              calls'[c].result.balance =
                  ReplayFrom(Fin(0), SubSeq(transactions, 1,
                                            calls'[c].result.totalTransactions))]_vars

ReadRoutes == {"balance", "transactions", "transaction", "health", "unknown"}

\* C19: GET /balance, GET /transactions, GET /transactions/:id, GET /health
\* and a request to an unknown route leave balance and history as they are;
\* the balance changes only with a deposit or withdrawal answered 201; and
\* GET /balance answers the balance with currency 'USD'.
C19_ReadsChangeNothing ==
    [][/\ (\E route \in ReadRoutes : Handles(route)) => Unchanged
       /\ ~Unchanged => /\ req'.route \in {"deposit", "withdraw"}
                        /\ res'.status = 201
       /\ Handles("balance") => /\ res'.balance = balance
                                /\ res'.currency = "USD"]_vars

\* GET /balance answered the balance of a history of two.
C19_Witness ==
    /\ Answered("balance", 200)
    /\ res.balance = balance
    /\ res.currency = "USD"
    /\ Len(transactions) = 2
    /\ balance = Fin(2)

ErrorTexts ==
    { "Valid amount is required (must be a positive number)",
      "Insufficient funds", "Transaction not found", "Endpoint not found" }

TimestampsSorted(list) ==
    \A i, j \in 1..Len(list) : i < j => list[i].timestamp <= list[j].timestamp

\* C21 as stated: for positions i < j of the history,
\* timestamp(i) <= timestamp(j).
C21_TimestampsMonotonic == TimestampsSorted(transactions)

\* C21: a transaction is stamped with the reading of the system clock at the
\* moment it is recorded and is appended at the end of the history; so a
\* history with non-decreasing timestamps keeps them non-decreasing whenever
\* the clock has not been set back behind its last timestamp.
C21_TimestampsFollowClock ==
    [][transactions' # transactions =>
        LET n == Len(transactions)
        IN  /\ Len(transactions') = n + 1
            /\ SubSeq(transactions', 1, n) = transactions
            /\ transactions'[n + 1].timestamp = now
            /\ (/\ TimestampsSorted(transactions)
                /\ n > 0 => transactions[n].timestamp <= now) =>
                    TimestampsSorted(transactions')]_vars

\* Two transactions recorded at different readings of a clock that ran on.
C21_Witness ==
    /\ Len(transactions) = 2
    /\ transactions[1].timestamp < transactions[2].timestamp
    /\ transactions[2].timestamp = now

\* C22 as stated: when getAccountSummary(n) returns and the history did not
\* change during the call, recentTransactions holds the last n transactions
\* of the history, or all of them when there are fewer than n.
C22_SummaryShowsLatest ==
    [][\A c \in Clients :
        (/\ Completes(c, "getAccountSummary")
         /\ calls'[c].result.totalTransactions = Len(transactions)) =>
            LET n == calls'[c].transactions.limit.v
                total == Len(transactions)
                k == Min(n, total)
            IN  calls'[c].result.recentTransactions =
                    [i \in 1..k |-> TransactionView(transactions[total - k + i])]]_vars

\* The request carries no description.
SuppliesNone(description) == description.t \in {"undefined", "null"}

\* C23 as stated: the description of a transaction that is recorded is a
\* string: the one the request supplies, or 'Deposit' for a deposit and
\* 'Withdrawal' for a withdrawal when the request supplies none.
C23_DescriptionIsString ==
    [][\A route \in {"deposit", "withdraw"} :
        (Handles(route) /\ transactions' # transactions) =>
            LET d == transactions'[Len(transactions')].description
                dflt == IF route = "deposit" THEN DepositDefault ELSE WithdrawalDefault
            IN  /\ d.t = "string"
                /\ d = IF SuppliesNone(req'.description)
                       THEN Str(dflt) ELSE req'.description]_vars

\* Empty and absent ids.
EmptyIds == {Undefined, Null, Str(<<>>)}

\* C24: getTransaction called with an empty or absent id throws 'Transaction
\* ID is required' and returns nothing else; it sends no request, so no
\* request for a lookup or a list with an empty id is ever in flight, and the
\* ledger is unchanged.
C24_EmptyIdRejected ==
    [][/\ \A c \in Clients, id \in EmptyIds :
            StartGetTransaction(c, id) =>
                /\ calls'[c].pc = "failed"
                /\ calls'[c].result = [error |-> <<"Transaction ID is required">>]
                /\ inflight' = inflight
                /\ req' = req /\ res' = res
                /\ Unchanged
       /\ \A r \in inflight' :
            calls'[r.from].op = "getTransaction" =>
                r.route = "transaction" /\ r.id \notin EmptyIds]_vars

\* A lookup without an id was refused by the client while the history held a
\* transaction.
C24_Witness ==
    /\ \E c \in Clients :
          /\ calls[c].op = "getTransaction"
          /\ calls[c].pc = "failed"
          /\ calls[c].result = [error |-> <<"Transaction ID is required">>]
    /\ Len(transactions) > 0
    /\ inflight = {}

\* C25 as stated: in the response of GET /transactions, limit is the length
\* of the page that is returned, and offset is the number of transactions
\* that come before the page in the history.
C25_LimitIsPageLength ==
    [][Handles("transactions") =>
        /\ res'.limit = Fin(Len(res'.transactions))
        /\ Len(res'.transactions) > 0 =>
              /\ IsFinite(res'.offset)
              /\ res'.offset.v \in 0..(Len(transactions) - 1)
              /\ res'.transactions =
                    [i \in 1..Len(res'.transactions) |->
                        TransactionView(transactions[res'.offset.v + i])]]_vars

\* Amounts that are missing, zero or negative.
MissingZeroNegative == {Undefined, Null, Num(Fin(0)), Num(Fin(-1))}

\* C26: deposit, withdraw and transfer called with a missing, zero or
\* negative amount throw 'Amount must be a positive number' and send nothing,
\* so the ledger is unchanged; and a request the server answers with 400
\* leaves the ledger unchanged and makes the method throw.
C26_BadAmountThrows ==
    [][/\ \A c \in Clients, amount \in MissingZeroNegative :
            (\/ StartDeposit(c, amount)
             \/ StartWithdraw(c, amount)
             \/ StartTransfer(c, amount)) =>
                /\ calls'[c].pc = "failed"
                /\ calls'[c].result = [error |-> <<"Amount must be a positive number">>]
                /\ inflight' = inflight
                /\ Unchanged
       /\ \A r \in inflight :
            (Served(r) /\ res'.status = 400) =>
                /\ Unchanged
                /\ calls'[r.from].pc = "failed"
                /\ Head(calls'[r.from].result.error)
                      \in {"API request failed: ", "Transfer failed: "}]_vars

\* A transfer of a bad amount was refused by the client while the history
\* held a transaction.
C26_Witness ==
    /\ calls["A"].op = "transfer"
    /\ calls["A"].pc = "failed"
    /\ calls["A"].result = [error |-> <<"Amount must be a positive number">>]
    /\ inflight = {}
    /\ Len(transactions) > 0

\* The number value of sum / count for a count > 0: the quotient rounded to
\* the nearest representable value.
Quotient(sum, count) ==
    IF IsFinite(sum) THEN RoundRat(sum.v, count) ELSE sum

\* C27: in the result of getTransactionStats each average is the sum of its
\* kind divided by the count of its kind, and is 0 when the count is 0, as
\* it is whenever the history holds no transaction of the kind; and the call
\* does not throw.
C27_AveragesDefined ==
    [][\A c \in Clients :
        /\ calls'[c].op = "getTransactionStats" => calls'[c].pc # "failed"
        /\ Completes(c, "getTransactionStats") =>
              LET r == calls'[c].result
              IN  /\ r.averageDeposit =
                        IF r.depositCount = 0 THEN Fin(0)
                        ELSE Quotient(r.totalDeposits, r.depositCount)
                  /\ r.averageWithdrawal =
                        IF r.withdrawalCount = 0 THEN Fin(0)
                        ELSE Quotient(r.totalWithdrawals, r.withdrawalCount)
                  /\ OfType(transactions, "deposit") = <<>> =>
                        r.depositCount = 0 /\ r.averageDeposit = Fin(0)
                  /\ OfType(transactions, "withdrawal") = <<>> =>
                        r.withdrawalCount = 0 /\ r.averageWithdrawal = Fin(0)]_vars

\* Statistics of a history of two deposits, of 1 and of 2, and no withdrawal.
C27_Witness ==
    /\ calls["A"].op = "getTransactionStats"
    /\ calls["A"].pc = "done"
    /\ calls["A"].result.depositCount = 2
    /\ calls["A"].result.totalDeposits = Fin(3)
    /\ calls["A"].result.averageDeposit = Quotient(Fin(3), 2)
    /\ calls["A"].result.withdrawalCount = 0
    /\ calls["A"].result.averageWithdrawal = Fin(0)

\* The handling of the request failed with an error.
Failed == ~Tick /\ "failure" \in DOMAIN req'

\* C28: a request whose handling raises an error is answered 500 with
\* success false and the text 'Internal server error' and nothing else, and
\* balance and history stay as they were; no other request is answered 500.
C28_InternalErrorIsGeneric ==
    [][/\ Failed =>
            /\ res' = [ status |-> 500, success |-> FALSE,
                        error |-> "Internal server error" ]
            /\ Unchanged
       /\ (~Tick /\ res'.status = 500) => "failure" \in DOMAIN req']_vars

\* A POST /deposit with a body that is not JSON was answered 500 while the
\* ledger held a deposit.
C28_Witness ==
    /\ req.route = "deposit"
    /\ "failure" \in DOMAIN req
    /\ res.status = 500
    /\ res.error = "Internal server error"
    /\ balance = Fin(1)
    /\ Len(transactions) = 1

\* The amount of the request of kind route that client c has in flight, 0
\* when it has none.
PendingAmount(c, route) ==
    LET own == {r \in inflight : r.from = c /\ r.route = route}
    IN  IF own = {} THEN 0 ELSE (CHOOSE r \in own : TRUE).amount.n.v

\* The exact sum of the amounts of kind route that are in flight.
RECURSIVE PendingSum(_, _)
PendingSum(clients, route) ==
    IF clients = {} THEN 0
    ELSE LET c == CHOOSE c \in clients : TRUE
         IN  PendingAmount(c, route) + PendingSum(clients \ {c}, route)

\* The requests in flight are a batch the balance covers: it is at least the
\* sum of the withdrawals in flight.
Covered ==
    /\ IsFinite(balance)
    /\ balance.v >= PendingSum(Clients, "withdraw")

\* Besides, no step of the batch can round: the balance and the deposits in
\* flight sum to a value below which every integer is a number.
CoveredExactly ==
    /\ Covered
    /\ balance.v + PendingSum(Clients, "deposit") <= Pow2(MantissaBits)

\* Whatever suffix of the history is taken as a batch whose withdrawals the
\* balance before it covers, the balance after it is the balance before it
\* plus the deposits minus the withdrawals of the batch.
ExactAfterBatches(list, bal) ==
    \A k \in 0..Len(list) :
        LET before == ReplayFrom(Fin(0), SubSeq(list, 1, k))
            batch == SubSeq(list, k + 1, Len(list))
        IN  (/\ IsFinite(before)
             /\ before.v >= ExactSum(OfType(batch, "withdrawal"))) =>
                bal = Fin(before.v + ExactSum(OfType(batch, "deposit"))
                                   - ExactSum(OfType(batch, "withdrawal")))

\* C29 as stated: when the balance covers the withdrawals of the batch in
\* flight, whichever request is handled next is accepted, and the balance
\* after a batch is the balance before it plus its deposits minus its
\* withdrawals, in whatever order the batch was handled.
C29_BatchIsExact ==
    [][/\ \A r \in inflight : (Covered /\ Served(r)) => res'.status = 201
       /\ ExactAfterBatches(transactions', balance')]_vars

\* C29: when the balance covers the withdrawals of the batch in flight and
\* no step of the batch can round, whichever request is handled next is
\* accepted and moves the balance by exactly its amount, and the rest of the
\* batch is covered in the same way: so every order succeeds and ends with
\* the balance before plus the deposits minus the withdrawals.
C29_BatchSucceedsInAnyOrder ==
    [][\A r \in inflight :
        (CoveredExactly /\ Served(r)) =>
            /\ res'.status = 201
            /\ transactions' = Append(transactions, res'.transaction)
            /\ balance' = Fin(IF r.route = "deposit"
                               THEN balance.v + r.amount.n.v
                               ELSE balance.v - r.amount.n.v)
            /\ CoveredExactly']_vars

\* A deposit of 2 and a withdrawal of 1 sent together to a balance of 1 were
\* both recorded.
C29_Witness ==
    /\ calls["A"].pc = "done" /\ calls["A"].op = "deposit"
    /\ calls["B"].pc = "done" /\ calls["B"].op = "withdraw"
    /\ calls["A"].result.transaction.amount = Fin(2)
    /\ calls["B"].result.transaction.amount = Fin(1)
    /\ Len(transactions) = 3
    /\ transactions[1].amount = Fin(1)
    /\ balance = Fin(2)
    /\ inflight = {}

\* The number of transactions of a history with the description.
CountDescribed(list, text) ==
    Len(SelectSeq(list, LAMBDA t : t.description = Str(text)))

\* No transfer is under way: every client's call is over or is no transfer.
NoTransferRunning ==
    \A c \in Clients : calls[c].op = "transfer" => calls[c].pc \in {"done", "failed"}

\* Every withdrawal of a transfer has its deposit in the history.
TransfersComplete(list) ==
    CountDescribed(list, TransferOut(TransferDefault)) =
        CountDescribed(list, TransferIn(TransferDefault))

\* C30 as stated: when the withdrawal of a transfer is refused, no deposit is
\* sent and the ledger is unchanged; and once a transfer is over, the history
\* never holds its withdrawal without its deposit.
C30_TransferAllOrNothing ==
    [][/\ \A r \in inflight :
            (/\ Served(r)
             /\ r.route = "withdraw"
             /\ calls[r.from].op = "transfer"
             /\ res'.status = 400) =>
                /\ Unchanged
                /\ inflight' = inflight \ {r}
                /\ calls'[r.from].pc = "failed"
       /\ NoTransferRunning' => TransfersComplete(transactions')]_vars

\* The step ends a transfer of client c with a result, and the withdrawal of
\* the transfer is still the last transaction of the history: no other
\* client's deposit or withdrawal was recorded between the two requests.
TransferAlone(c) ==
    /\ Completes(c, "transfer")
    /\ transactions # <<>>
    /\ transactions[Len(transactions)] = calls[c].withdrawal.transaction

\* The balance before the withdrawal of the transfer that is completing: the
\* history before that withdrawal, applied in order from 0.
BalanceBefore == ReplayFrom(Fin(0), SubSeq(transactions, 1, Len(transactions) - 1))

\* The step appended exactly the deposit d, so that the history ends with the
\* withdrawal w of the transfer immediately followed by d.
EndsWithPair(w, d) ==
    /\ transactions' = Append(transactions, d)
    /\ transactions[Len(transactions)] = w
    /\ w.type = "withdrawal" /\ w.description = Str(TransferOut(TransferDefault))
    /\ d.type = "deposit" /\ d.description = Str(TransferIn(TransferDefault))

\* C31 as stated: a transfer that succeeds with no other client's deposit or
\* withdrawal between its two requests appended a withdrawal of amount
\* immediately followed by a deposit of the same amount, and returns a
\* finalBalance equal to the balance before the transfer.
C31_TransferRestoresBalance ==
    [][\A c \in Clients :
        TransferAlone(c) =>
            LET result == calls'[c].result
            IN  /\ EndsWithPair(result.withdrawal, result.deposit)
                /\ Num(result.withdrawal.amount) = calls[c].amount
                /\ result.deposit.amount = result.withdrawal.amount
                /\ result.finalBalance = BalanceBefore]_vars

\* C31: a transfer that succeeds with no other client's deposit or
\* withdrawal between its two requests appended a withdrawal immediately
\* followed by a deposit, both of the number the server read from amount
\* (amount itself when it is a number), and returns as finalBalance the
\* balance after the deposit, which is the balance before the transfer minus
\* the amount, rounded, plus the amount, rounded; it is the balance before the
\* transfer whenever the subtraction did not round.
C31_TransferRoundTrip ==
    [][\A c \in Clients :
        TransferAlone(c) =>
            LET result == calls'[c].result
                numAmount == ParseFloat(calls[c].amount)
                between == FSub(BalanceBefore, numAmount)
            IN  /\ EndsWithPair(result.withdrawal, result.deposit)
                /\ result.withdrawal.amount = numAmount
                /\ result.deposit.amount = numAmount
                /\ calls[c].amount.t = "number" => Num(numAmount) = calls[c].amount
                /\ calls[c].withdrawal.newBalance = between
                /\ result.finalBalance = FAdd(between, numAmount)
                /\ result.finalBalance = balance'
                /\ (/\ IsFinite(BalanceBefore)
                    /\ between = Fin(BalanceBefore.v - numAmount.v)) =>
                        result.finalBalance = BalanceBefore]_vars

\* A transfer of 1 from a balance of 6 returned: the subtraction rounded and
\* the balance ended at 4.
C31_Witness ==
    /\ calls["A"].op = "transfer" /\ calls["A"].pc = "done"
    /\ calls["A"].result.transferAmount = Num(Fin(1))
    /\ Len(transactions) = 3
    /\ transactions[1].amount = Fin(6)
    /\ transactions[2] = calls["A"].result.withdrawal
    /\ transactions[3] = calls["A"].result.deposit
    /\ calls["A"].result.finalBalance = Fin(4)
    /\ balance = Fin(4)

====
